---- MODULE Spec2Model ----
(***************************************************************************)
(* Model of the `k3sup plan` command (cmd/plan.go, MakePlan.RunE): the     *)
(* loop that turns an ordered host list into an installation script.       *)
(*                                                                         *)
(* Text is modelled as a sequence of tokens.  Every string literal and    *)
(* every fmt.Sprintf result is a piece: the sequence of its literal parts  *)
(* and of its substituted values, in order; a %s that receives an empty    *)
(* clause string (tlsSanStr, serverExtraArgsSt, agentExtraArgsSt, bgStr)   *)
(* contributes no token, as concatenating "" contributes no byte.  The     *)
(* script is the sequence of the pieces appended to it: `script += x`      *)
(* appends the piece x.                                                    *)
(***************************************************************************)
EXTENDS Integers, Sequences, FiniteSets, TLC

(* ------------------------------ bounds -------------------------------- *)
MaxHosts == 3
MaxServers == 4
MaxLimit == 4

(* ------------------------------ inputs -------------------------------- *)
\* Host.IP values json.Unmarshal can deliver; a record without an "ip"
\* field leaves the Go zero value "".
IPs == {"", "10.0.0.1", "10.0.0.2"}

\* type Host struct { Hostname string; IP string }
Host == [Hostname : {"node"}, IP : IPs]

\* var primaryServer Host  -- the Go zero value
ZeroHost == [Hostname |-> "", IP |-> ""]

BoundedSeq(S, n) == UNION {[1..m -> S] : m \in 0..n}

HostLists == BoundedSeq(Host, MaxHosts)
ServersValues == (-1)..MaxServers
LimitValues == (-1)..MaxLimit
TlsSanValues == {"", "192.168.0.1"}
ServerExtraArgsValues == {"", "--disable traefik"}
AgentExtraArgsValues == {"", "--node-label role=agent"}

VARIABLES
  hosts,               \* []Host decoded from the JSON file
  servers,             \* --servers
  nodeLimit,           \* --limit
  background,          \* --background
  tlsSan,              \* --tls-san
  serverK3sExtraArgs,  \* --server-k3s-extra-args
  agentK3sExtraArgs,   \* --agent-k3s-extra-args
  user,                \* --user
  kubeconfig,          \* --local-path
  contextName,         \* --context
  i,                   \* loop index of `for i, host := range hosts`
  serversAdded,
  primaryServer,
  script,
  pc,                  \* "loop", "print" or "done"
  stdout

flags == <<hosts, servers, nodeLimit, background, tlsSan, serverK3sExtraArgs,
           agentK3sExtraArgs, user, kubeconfig, contextName>>
vars == <<hosts, servers, nodeLimit, background, tlsSan, serverK3sExtraArgs,
          agentK3sExtraArgs, user, kubeconfig, contextName,
          i, serversAdded, primaryServer, script, pc, stdout>>

(* --------------------------- clause strings --------------------------- *)
\* len(s) > 0 for a Go string
NonEmpty(s) == s # ""

tlsSanStr_always ==
  <<" \\\n--tls-san ", tlsSan>>

tlsSanStr ==
  IF NonEmpty(tlsSan) THEN <<" \\\n--tls-san ", tlsSan>> ELSE <<>>

bgStr ==
  IF background THEN <<" &">> ELSE <<>>

serverExtraArgsSt ==
  IF NonEmpty(serverK3sExtraArgs)
    THEN <<" \\\n--k3s-extra-args \"", serverK3sExtraArgs, "\"">>
    ELSE <<>>

agentExtraArgsSt ==
  IF NonEmpty(agentK3sExtraArgs)
    THEN <<" \\\n--k3s-extra-args \"", agentK3sExtraArgs, "\"">>
    ELSE <<>>

(* ------------------------------ templates ----------------------------- *)
Header == <<<<"#!/bin/sh\n\n">>>>

PrimaryMarker == "echo \"Setting up primary server 1\"\n"
AdditionalMarker == "\necho \"Setting up additional server: "
WorkerMarker == "\necho \"Setting up worker: "
MarkerEnd == "\"\n"
InstallHead == "k3sup install --host "
JoinHead == "k3sup join \\\n--host "
ServerHostFlag == " \\\n--server-host "
TokenCapture == "\necho \"Fetching the server's node-token into memory\"\n\nexport NODE_TOKEN=$(k3sup node-token --host "

PrimaryBlock_bg(host) ==
  << <<PrimaryMarker>>,
     <<InstallHead, host.IP, " \\\n--user ", user,
       " \\\n--cluster \\\n--local-path ", kubeconfig,
       " \\\n--context ", contextName>>
       \o tlsSanStr \o serverExtraArgsSt \o bgStr \o <<"\n">>,
     <<TokenCapture, host.IP, " --user ", user, ")\n">> >>

\* the three `script +=` of the first branch
PrimaryBlock(host) ==
  << <<PrimaryMarker>>,
     <<InstallHead, host.IP, " \\\n--user ", user,
       " \\\n--cluster \\\n--local-path ", kubeconfig,
       " \\\n--context ", contextName>>
       \o tlsSanStr \o serverExtraArgsSt \o <<"\n">>,
     <<TokenCapture, host.IP, " --user ", user, ")\n">> >>

AdditionalBlock_self(host, ps, sa) ==
  << <<AdditionalMarker, ToString(sa + 1), MarkerEnd>>,
     <<JoinHead, host.IP, ServerHostFlag, host.IP,
         " \\\n--server \\\n--node-token \"$NODE_TOKEN\" \\\n--user ", user>>
       \o tlsSanStr \o serverExtraArgsSt \o bgStr \o <<"\n">> >>

\* the two `script +=` of the second branch; sa is serversAdded before the ++
AdditionalBlock(host, ps, sa) ==
  << <<AdditionalMarker, ToString(sa + 1), MarkerEnd>>,
     <<JoinHead, host.IP, ServerHostFlag, ps.IP,
         " \\\n--server \\\n--node-token \"$NODE_TOKEN\" \\\n--user ", user>>
       \o tlsSanStr \o serverExtraArgsSt \o bgStr \o <<"\n">> >>

WorkerOrdinal_offByOne(idx, sa) == idx - sa

\* (i+1)-serversAdded
WorkerOrdinal(idx, sa) == (idx + 1) - sa

WorkerBlock_serverArgs(host, ps, idx, sa) ==
  << <<WorkerMarker, ToString(WorkerOrdinal(idx, sa)), MarkerEnd>>,
     <<JoinHead, host.IP, ServerHostFlag, ps.IP,
         " \\\n--node-token \"$NODE_TOKEN\" \\\n--user ", user>>
       \o serverExtraArgsSt \o bgStr \o <<"\n">> >>

\* the two `script +=` of the third branch
WorkerBlock(host, ps, idx, sa) ==
  << <<WorkerMarker, ToString(WorkerOrdinal(idx, sa)), MarkerEnd>>,
     <<JoinHead, host.IP, ServerHostFlag, ps.IP,
         " \\\n--node-token \"$NODE_TOKEN\" \\\n--user ", user>>
       \o agentExtraArgsSt \o bgStr \o <<"\n">> >>

(* ------------------------------ conditions ---------------------------- *)
JoinsAsServer_inclusive(sa, srv) == sa <= srv

\* else if serversAdded < servers
JoinsAsServer(sa, srv) == sa < srv

ServersAddedInc_forgotten(sa) == sa

\* serversAdded++
ServersAddedInc(sa) == sa + 1

LimitReached_noZeroCheck(lim, idx) == idx + 1 >= lim

LimitReached_late(lim, idx) == lim > 0 /\ idx + 1 > lim

\* if nodeLimit > 0 && i+1 >= nodeLimit { break }
LimitReached(lim, idx) == lim > 0 /\ idx + 1 >= lim

(* ------------------------------- the loop ----------------------------- *)
Init ==
  /\ hosts \in HostLists
  /\ servers \in ServersValues
  /\ nodeLimit \in LimitValues
  /\ background \in BOOLEAN
  /\ tlsSan \in TlsSanValues
  /\ serverK3sExtraArgs \in ServerExtraArgsValues
  /\ agentK3sExtraArgs \in AgentExtraArgsValues
  /\ user = "root"
  /\ kubeconfig = "kubeconfig"
  /\ contextName = "default"
  /\ i = 0
  /\ serversAdded = 0
  /\ primaryServer = ZeroHost
  /\ script = Header
  /\ pc = "loop"
  /\ stdout = <<>>

\* the end of one iteration: break, or move on to the next index
EndOfIteration ==
  IF LimitReached(nodeLimit, i)
    THEN i' = i /\ pc' = "print"
    ELSE i' = i + 1 /\ pc' = "loop"

PrimaryStep ==
  /\ pc = "loop"
  /\ i < Len(hosts)
  /\ serversAdded = 0
  /\ script' = script \o PrimaryBlock(hosts[i + 1])
  /\ serversAdded' = 1
  /\ primaryServer' = hosts[i + 1]
  /\ EndOfIteration
  /\ UNCHANGED <<flags, stdout>>

AdditionalStep ==
  /\ pc = "loop"
  /\ i < Len(hosts)
  /\ serversAdded # 0
  /\ JoinsAsServer(serversAdded, servers)
  /\ script' = script \o AdditionalBlock(hosts[i + 1], primaryServer, serversAdded)
  /\ serversAdded' = ServersAddedInc(serversAdded)
  /\ EndOfIteration
  /\ UNCHANGED <<flags, primaryServer, stdout>>

WorkerStep ==
  /\ pc = "loop"
  /\ i < Len(hosts)
  /\ serversAdded # 0
  /\ ~JoinsAsServer(serversAdded, servers)
  /\ script' = script \o WorkerBlock(hosts[i + 1], primaryServer, i, serversAdded)
  /\ EndOfIteration
  /\ UNCHANGED <<flags, serversAdded, primaryServer, stdout>>

\* the range is exhausted
LoopExit ==
  /\ pc = "loop"
  /\ i >= Len(hosts)
  /\ pc' = "print"
  /\ UNCHANGED <<flags, i, serversAdded, primaryServer, script, stdout>>

\* fmt.Printf("%s\n", script)
PrintScript ==
  /\ pc = "print"
  /\ stdout' = Append(script, <<"\n">>)
  /\ pc' = "done"
  /\ UNCHANGED <<flags, i, serversAdded, primaryServer, script>>

Next ==
  \/ PrimaryStep
  \/ AdditionalStep
  \/ WorkerStep
  \/ LoopExit
  \/ PrintScript

Spec == Init /\ [][Next]_vars

(* ------------------------ the loop as a function ---------------------- *)
RECURSIVE RunLoop(_, _, _, _, _, _, _)
\* the script the loop leaves for host list hs, --servers srv and --limit
\* lim, from index idx with the accumulators sa, ps and scr
RunLoop(hs, srv, lim, idx, sa, ps, scr) ==
  IF idx >= Len(hs) THEN scr
  ELSE
    LET host == hs[idx + 1]
        scr2 == IF sa = 0 THEN scr \o PrimaryBlock(host)
                ELSE IF JoinsAsServer(sa, srv)
                  THEN scr \o AdditionalBlock(host, ps, sa)
                  ELSE scr \o WorkerBlock(host, ps, idx, sa)
        sa2 == IF sa = 0 THEN 1
               ELSE IF JoinsAsServer(sa, srv) THEN ServersAddedInc(sa) ELSE sa
        ps2 == IF sa = 0 THEN host ELSE ps
    IN IF LimitReached(lim, idx) THEN scr2
       ELSE RunLoop(hs, srv, lim, idx + 1, sa2, ps2, scr2)

\* the script of a whole run, the other flags being those of the state
MakePlanScript(hs, srv, lim) == RunLoop(hs, srv, lim, 0, 0, ZeroHost, Header)

\* the stepwise loop and the function compute the same script
LoopAgreesWithRun ==
  pc = "done" => script = MakePlanScript(hosts, servers, nodeLimit)

(* ----------------------- reading the script back ---------------------- *)
Markers == {PrimaryMarker, AdditionalMarker, WorkerMarker}

RECURSIVE BlocksFrom(_, _, _)
\* the blocks of s from piece p on, acc holding those before p: a block
\* runs from a piece that begins with a marker to the piece before the next
BlocksFrom(s, p, acc) ==
  IF p > Len(s) THEN acc
  ELSE IF s[p][1] \in Markers THEN BlocksFrom(s, p + 1, Append(acc, s[p]))
  ELSE IF acc = <<>> THEN BlocksFrom(s, p + 1, acc)
  ELSE BlocksFrom(s, p + 1, [acc EXCEPT ![Len(acc)] = @ \o s[p]])

\* the texts (token sequences) of the blocks of the script s, in order
Blocks(s) == BlocksFrom(s, 1, <<>>)

Role(t) ==
  IF t[1] = PrimaryMarker THEN "primary"
  ELSE IF t[1] = AdditionalMarker THEN "server" ELSE "worker"

IsControlPlane(r) == r \in {"primary", "server"}

\* the roles of the blocks B, in order
RolesOf(B) == [k \in DOMAIN B |-> Role(B[k])]

\* the roles of the script's blocks so far
Roles == RolesOf(Blocks(script))

\* the values that follow the token flag in the text t
ValuesAfter(t, flag) == {t[p + 1] : p \in {q \in 1..(Len(t) - 1) : t[q] = flag}}

\* the address a block installs or joins
TargetOf(t) == ValuesAfter(t, InstallHead) \cup ValuesAfter(t, JoinHead)

HasToken(t, tok) == \E p \in 1..Len(t) : t[p] = tok

\* the ordinal printed in a block's marker
OrdinalOf(t) == IF t[1] = PrimaryMarker THEN "1" ELSE t[2]

\* the number of blocks among the first k of the roles R that are of the
\* class (control plane, or worker) of the k-th
RankIn(R, k) ==
  Cardinality({j \in 1..k : IsControlPlane(R[j]) = IsControlPlane(R[k])})

Min(a, b) == IF a < b THEN a ELSE b
Max(a, b) == IF a > b THEN a ELSE b

\* the script is the header followed by one block per processed host
ScriptShape ==
  LET B == Blocks(script) IN
    /\ SubSeq(script, 1, 1) = Header
    /\ Len(B) = (IF pc = "loop" THEN i ELSE Min(i + 1, Len(hosts)))
    /\ \A k \in DOMAIN B : TargetOf(B[k]) = {hosts[k].IP}

(* ================================ claims ============================== *)
\* C1: with no limit, n >= 1 hosts and servers = c >= 1, the finished plan
\* has min(c, n) control-plane blocks and max(0, n - c) worker blocks, and
\* the block of host 0 is the only primary block.
C1_RoleCounts ==
  (pc = "done" /\ Len(hosts) >= 1 /\ servers >= 1 /\ nodeLimit = 0) =>
    LET B == Blocks(script)
        R == RolesOf(B)
    IN /\ Cardinality({k \in DOMAIN R : IsControlPlane(R[k])})
            = Min(servers, Len(hosts))
       /\ Cardinality({k \in DOMAIN R : R[k] = "worker"})
            = Max(0, Len(hosts) - servers)
       /\ {k \in DOMAIN R : R[k] = "primary"} = {1}
       /\ TargetOf(B[1]) = {hosts[1].IP}

C1_Witness ==
  /\ pc = "done" /\ nodeLimit = 0 /\ servers = 2 /\ Len(hosts) = 3
  /\ Roles = <<"primary", "server", "worker">>

\* C2: the block of the processed host at index idx (block idx + 1) is an
\* additional-server block iff 0 < idx < servers, the block of index 0 is
\* the primary block, every other block is a worker block, and no
\* control-plane block follows a worker block.
C2_RoleByIndex ==
  LET B == Blocks(script)
      R == RolesOf(B)
  IN /\ \A k \in DOMAIN B :
          /\ TargetOf(B[k]) = {hosts[k].IP}
          /\ (R[k] = "server") <=> (0 < k - 1 /\ k - 1 < servers)
          /\ (k - 1 = 0) => R[k] = "primary"
          /\ (k - 1 > 0 /\ k - 1 >= servers) => R[k] = "worker"
     /\ \A j, k \in DOMAIN B : (j < k /\ R[j] = "worker") => R[k] = "worker"

C2_Witness ==
  /\ servers = 2 /\ Len(hosts) = 3 /\ pc = "loop" /\ i = 3
  /\ Roles = <<"primary", "server", "worker">>

\* C3: in the finished plan, a limit L with 0 < L < n leaves exactly L
\* blocks, the loop having stopped at the L-th host (index L - 1); with
\* limit 0 every one of the n hosts has a block.
C3_BlockCount ==
  (pc = "done") =>
    LET B == Blocks(script) IN
      /\ (0 < nodeLimit /\ nodeLimit < Len(hosts)) =>
           (Len(B) = nodeLimit /\ i = nodeLimit - 1)
      /\ (nodeLimit = 0) => Len(B) = Len(hosts)

C3_Witness ==
  /\ pc = "done" /\ nodeLimit = 2 /\ Len(hosts) = 3 /\ servers = 3
  /\ Roles = <<"primary", "server">>

\* C4: for a limit L with 0 < L < n, the finished script is the script of
\* an unlimited run over the first L hosts.
C4_TruncationEquivalence ==
  (pc = "done" /\ 0 < nodeLimit /\ nodeLimit < Len(hosts)) =>
    script = MakePlanScript(SubSeq(hosts, 1, nodeLimit), servers, 0)

C4_Witness ==
  /\ pc = "done" /\ nodeLimit = 2 /\ Len(hosts) = 3 /\ servers = 1
  /\ Roles = <<"primary", "worker">>
  /\ hosts[3].IP # hosts[2].IP

\* the k-th block of B names the address of host 0 as its --server-host and
\* comes after the primary block of host 0 with its node-token capture
JoinAfterPrimary(B, k) ==
  /\ ValuesAfter(B[k], ServerHostFlag) = {hosts[1].IP}
  /\ primaryServer = hosts[1]
  /\ k > 1
  /\ Role(B[1]) = "primary"
  /\ ValuesAfter(B[1], InstallHead) = {hosts[1].IP}
  /\ ValuesAfter(B[1], TokenCapture) = {hosts[1].IP}

\* C5 as stated: every join block carries the address of host 0, comes
\* after the primary block and its token capture, and its --server-host
\* address is never empty.
C5_Original ==
  LET B == Blocks(script) IN
    \A k \in DOMAIN B :
      Role(B[k]) \in {"server", "worker"} =>
        /\ JoinAfterPrimary(B, k)
        /\ "" \notin ValuesAfter(B[k], ServerHostFlag)

\* C5 (amended): every join block carries the address of host 0 as its
\* --server-host and comes after the primary block of host 0 with its
\* node-token capture, primaryServer being host 0 by then; the address is
\* empty exactly when host 0's own address is empty.
C5_ServerHostIsPrimary ==
  LET B == Blocks(script) IN
    \A k \in DOMAIN B :
      Role(B[k]) \in {"server", "worker"} =>
        /\ JoinAfterPrimary(B, k)
        /\ ("" \in ValuesAfter(B[k], ServerHostFlag)) <=> (hosts[1].IP = "")

C5_Witness ==
  /\ Roles = <<"primary", "server", "worker">>
  /\ hosts[1].IP = "10.0.0.1" /\ hosts[2].IP = "10.0.0.2"
  /\ \A k \in {2, 3} :
       ValuesAfter(Blocks(script)[k], ServerHostFlag) = {"10.0.0.1"}

TlsSanFlag == " \\\n--tls-san "

\* the text t holds the clause `--tls-san <tlsSan>`
HasTlsSan(t) == tlsSan \in ValuesAfter(t, TlsSanFlag)

\* C6 as stated: every block, whatever its role, holds the TLS-SAN clause
\* iff tlsSan is non-empty.
C6_Original ==
  LET B == Blocks(script) IN
    \A k \in DOMAIN B : HasTlsSan(B[k]) <=> NonEmpty(tlsSan)

\* C6 (amended): every primary and additional-server block holds the
\* TLS-SAN clause iff tlsSan is non-empty; a worker block never holds it.
C6_TlsSanOnControlPlane ==
  LET B == Blocks(script) IN
    \A k \in DOMAIN B :
      IF IsControlPlane(Role(B[k]))
        THEN /\ HasTlsSan(B[k]) <=> NonEmpty(tlsSan)
             /\ HasToken(B[k], TlsSanFlag) <=> NonEmpty(tlsSan)
        ELSE ~HasToken(B[k], TlsSanFlag)

C6_Witness ==
  /\ NonEmpty(tlsSan)
  /\ Roles = <<"primary", "server", "worker">>
  /\ HasTlsSan(Blocks(script)[1])
  /\ HasTlsSan(Blocks(script)[2])
  /\ ~HasTlsSan(Blocks(script)[3])

BgSuffix == " &"

\* C7: a block holds the background suffix " &" iff --background is set
\* and the block is an additional-server or worker block; the primary
\* block never holds it.
C7_BackgroundSuffix ==
  LET B == Blocks(script) IN
    \A k \in DOMAIN B :
      /\ HasToken(B[k], BgSuffix)
           <=> (background /\ Role(B[k]) \in {"server", "worker"})
      /\ Role(B[k]) = "primary" => ~HasToken(B[k], BgSuffix)

C7_Witness ==
  /\ background
  /\ Roles = <<"primary", "server", "worker">>
  /\ ~HasToken(Blocks(script)[1], BgSuffix)
  /\ HasToken(Blocks(script)[2], BgSuffix)
  /\ HasToken(Blocks(script)[3], BgSuffix)

ExtraArgsFlag == " \\\n--k3s-extra-args \""

\* C8: a control-plane block holds an extra-args clause iff the server
\* extra-args value is non-empty, and then with that value only; a worker
\* block holds one iff the agent extra-args value is non-empty, and then
\* with that value only.
C8_ExtraArgsByRole ==
  LET B == Blocks(script) IN
    \A k \in DOMAIN B :
      LET own == IF IsControlPlane(Role(B[k]))
                   THEN serverK3sExtraArgs ELSE agentK3sExtraArgs
      IN /\ HasToken(B[k], ExtraArgsFlag) <=> NonEmpty(own)
         /\ ValuesAfter(B[k], ExtraArgsFlag)
              = (IF NonEmpty(own) THEN {own} ELSE {})

C8_Witness ==
  /\ NonEmpty(serverK3sExtraArgs) /\ agentK3sExtraArgs = ""
  /\ Roles = <<"primary", "server", "worker">>
  /\ HasToken(Blocks(script)[1], ExtraArgsFlag)
  /\ HasToken(Blocks(script)[2], ExtraArgsFlag)
  /\ ~HasToken(Blocks(script)[3], ExtraArgsFlag)

\* C9: with servers <= 0 the finished script is the script of the same run
\* with servers = 1: host 0 is the primary and every other block a worker.
C9_NonPositiveServersIsOne ==
  (pc = "done" /\ servers <= 0) =>
    /\ script = MakePlanScript(hosts, 1, nodeLimit)
    /\ LET R == Roles IN
         \A k \in DOMAIN R : R[k] = (IF k = 1 THEN "primary" ELSE "worker")

C9_Witness ==
  /\ pc = "done" /\ servers <= 0 /\ Len(hosts) = 3 /\ nodeLimit = 0
  /\ Roles = <<"primary", "worker", "worker">>

\* C10: the ordinal printed in the marker of every block is the number of
\* blocks of its class (control plane, or worker) up to and including it.
C10_OrdinalIsRank ==
  LET B == Blocks(script)
      R == RolesOf(B)
  IN \A k \in DOMAIN B : OrdinalOf(B[k]) = ToString(RankIn(R, k))

C10_Witness ==
  /\ servers <= 0 /\ nodeLimit = 3 /\ Len(hosts) = 3
  /\ Roles = <<"primary", "worker", "worker">>
  /\ OrdinalOf(Blocks(script)[3]) = "2"

====
